---- MODULE Spec2Model ----
(***************************************************************************)
(* Model of the storage core of reserve-data:                              *)
(*   - the bolt store of intermediate deposit transactions                 *)
(*     (pending_intermediate_tx / intermediate_tx buckets),                *)
(*   - the postgres activity ledger (table "activity"),                    *)
(*   - the postgres snapshot store (table "fetch_data") with its export    *)
(*     and prune of expired auth snapshots,                                *)
(*   - the bolt trade history (bucket trade_history),                      *)
(*   - the Rebroadcaster of signed transactions,                           *)
(*   - a reader and depositing callers running next to the writers.        *)
(* Each handler is one action; the bolt transaction (db.Update) and the    *)
(* SQL statements are modelled by operators computed as the code computes  *)
(* them.                                                                   *)
(***************************************************************************)
EXTENDS Integers, Sequences, FiniteSets, TLC

VARIABLES
    pending,      \* bucket pending_intermediate_tx: key -> value
    confirmed,    \* bucket intermediate_tx: key -> value
    inserted,     \* history: ids for which a Put has been committed
    promoted,     \* history: ids for which StoreIntermediateTx committed
    activity,     \* table "activity": sequence of rows in insertion order
    fetchData,    \* table "fetch_data": sequence of rows in insertion order
    serial,       \* the last value of the sequence behind fetch_data.id
    outFile,      \* the lines of the export file
    trades,       \* bucket trade_history: pair -> bucket of key -> value
    bc,           \* the Rebroadcaster and the frame of its Broadcast call:
                  \*   pc, clients, left (nodes the loop has not reached),
                  \*   sending (node whose SendTransaction is running), wg,
                  \*   failures, result and ok (the values returned), and
                  \*   sent: what SendTransaction returned for each node
    reader,       \* a reader of the intermediate transactions: its position,
                  \*   the id it asks about, its first call, and what its
                  \*   ListPending and GetConfirmed calls showed
    callers,      \* the depositing callers: position and (asset, exchange)
    returned,     \* the value returned by the last call, next to its error
    last          \* the last call: its name, arguments and returned error, and
                  \* what held when it was made:
                  \*   again: a Promote or UpdateActivity that repeats the
                  \*     previous call (same arguments)
                  \*   afterStore: it directly follows a successful
                  \*     StorePending of the same id and entry
                  \*   wasSettled: a row of the id was already settled

vars == <<pending, confirmed, inserted, promoted, activity,
          fetchData, serial, outFile, trades, bc, reader, callers,
          returned, last>>

boltVars == <<pending, confirmed, inserted, promoted>>

storeVars == <<fetchData, serial, outFile>>

(***************************************************************************)
(* Bounds and input domains                                                *)
(***************************************************************************)
MaxTimepoint == 1

MaxRows == 2

\* number of storeFetchData calls
MaxStores == 2

\* number of distinct clock readings, a quarter of a second apart
MaxTick == 3

\* number of trades held in the trade history
MaxTrades == 2

\* number of nodes a Rebroadcaster can be given
MaxNodes == 3

\* number of concurrent depositing callers
MaxCallers == 2

EIDs == {"a", "b"}

\* ids that differ in the EID only, and ids that differ in the timepoint only
ActivityIDs ==
    {[Timepoint |-> 1, EID |-> "a"]}
        \cup {[Timepoint |-> t, EID |-> "b"] : t \in 1..MaxTimepoint}

TXEntries == {"tx1", "tx2"}

Nil == "nil"

NotFoundErr == "can not find 2nd transaction tx for the deposit, please try later"

MarshalErr == "json: unsupported value"

PutErr == "bolt: put failed"

DeleteErr == "bolt: delete failed"

CommitErr == "bolt: commit failed"

\* the points at which a bolt write transaction can fail
StoreFailures == {"none", "marshalData", "marshalID", "put", "commit"}

PromoteFailures == {"none", "marshalData", "put", "marshalID", "delete", "commit"}

(***************************************************************************)
(* Encodings                                                               *)
(***************************************************************************)
\* json.Marshal / json.Unmarshal of a value
Marshal(v) == <<"json", v>>

Unmarshal(b) == b[2]

\* json.Marshal(id): the key encoding of the pending bucket
MarshalID(id) == <<"json", id.Timepoint, id.EID>>

UnmarshalID(k) == [Timepoint |-> k[2], EID |-> k[3]]

EIDByte == [e \in EIDs |-> IF e = "a" THEN 97 ELSE 98]

\* id.ToBytes(): the byte-sortable key encoding of the confirmed bucket
ToBytes(id) == <<id.Timepoint, EIDByte[id.EID]>>

\* bytes.Compare(a, b) < 0 on two ToBytes keys
BytesLess(a, b) == \/ a[1] < b[1]
                   \/ a[1] = b[1] /\ a[2] < b[2]

isTheSame(a, b) ==
    IF Len(a) # Len(b) THEN FALSE
    ELSE \A ix \in 1..Len(a) : b[ix] = a[ix]

(***************************************************************************)
(* Bolt buckets and transactions                                           *)
(***************************************************************************)
EmptyBucket == [k \in {} |-> Nil]

Put(b, k, v) == [x \in (DOMAIN b) \cup {k} |-> IF x = k THEN v ELSE b[x]]

Delete(b, k) == [x \in (DOMAIN b) \ {k} |-> b[x]]

\* Cursor.Seek(k): the first key >= k of the bucket, <<>> (nil) past the end
Seek(b, k) ==
    LET ge == {x \in DOMAIN b : x = k \/ BytesLess(k, x)}
    IN IF ge = {} THEN <<>>
       ELSE CHOOSE x \in ge : \A y \in ge : y = x \/ BytesLess(x, y)

\* (fault) the writes made before the failing step stay in the buckets
UpdateNoRollback(db, res, commitFails) ==
    [db |-> res.db, err |-> IF res.err # Nil THEN res.err
                            ELSE IF commitFails THEN CommitErr ELSE Nil]

\* db.Update(fn): fn ran on a private copy of the buckets and returned
\* res = [db, err]; the copy is committed when fn returned nil and the
\* commit succeeds, and rolled back otherwise
Update(db, res, commitFails) ==
    IF res.err # Nil THEN [db |-> db, err |-> res.err]
    ELSE IF commitFails THEN [db |-> db, err |-> CommitErr]
    ELSE [db |-> res.db, err |-> Nil]

DB == [pending |-> pending, confirmed |-> confirmed]

Call(op, id, arg, err) ==
    [op |-> op, id |-> id, arg |-> arg, err |-> err,
     again |-> /\ op \in {"Promote", "UpdateActivity"}
               /\ last.op = op /\ last.id = id /\ last.arg = arg,
     afterStore |-> /\ op = "Promote"
                    /\ last.op = "StorePending"
                    /\ last.err = Nil
                    /\ last.id = id
                    /\ last.arg = arg,
     wasSettled |-> FALSE]

(***************************************************************************)
(* Intermediate transactions (bolt)                                        *)
(***************************************************************************)
\* GetPendingIntermediateTXs: the map built by the cursor loop
GetPendingIntermediateTXs(p) ==
    [id \in {UnmarshalID(k) : k \in DOMAIN p} |->
        Unmarshal(p[CHOOSE k \in DOMAIN p : UnmarshalID(k) = id])]

\* GetIntermedatorTx: seek the confirmed bucket for the encoded id
GetIntermedatorTx(c, id) ==
    LET idBytes == ToBytes(id)
        k == Seek(c, idBytes)
    IN IF isTheSame(k, idBytes)
       THEN [tx |-> Unmarshal(c[k]), err |-> Nil]
       ELSE [tx |-> "", err |-> NotFoundErr]

\* the function StorePendingIntermediateTx passes to db.Update
StorePendingFn(db, id, data, fail) ==
    IF fail = "marshalData" THEN [db |-> db, err |-> Nil]
    ELSE IF fail = "marshalID" THEN [db |-> db, err |-> MarshalErr]
    ELSE IF fail = "put" THEN [db |-> db, err |-> PutErr]
    ELSE [db |-> [db EXCEPT !.pending = Put(@, MarshalID(id), Marshal(data))],
          err |-> Nil]

\* (fault) the entry is put into the confirmed bucket but not removed from
\* the pending bucket
StoreIntermediateFnNoDelete(db, id, data, fail) ==
    LET db1 == [db EXCEPT !.confirmed = Put(@, ToBytes(id), Marshal(data))]
    IN IF fail = "marshalData" THEN [db |-> db, err |-> MarshalErr]
       ELSE IF fail = "put" THEN [db |-> db, err |-> PutErr]
       ELSE IF fail = "marshalID" THEN [db |-> db1, err |-> MarshalErr]
       ELSE IF fail = "delete" THEN [db |-> db1, err |-> DeleteErr]
       ELSE [db |-> db1, err |-> Nil]

\* (fault) removing an id that is not pending is an error
StoreIntermediateFnStrict(db, id, data, fail) ==
    LET db1 == [db EXCEPT !.confirmed = Put(@, ToBytes(id), Marshal(data))]
        db2 == [db1 EXCEPT !.pending = Delete(@, MarshalID(id))]
    IN IF fail = "marshalData" THEN [db |-> db, err |-> MarshalErr]
       ELSE IF fail = "put" THEN [db |-> db, err |-> PutErr]
       ELSE IF fail = "marshalID" THEN [db |-> db1, err |-> MarshalErr]
       ELSE IF fail = "delete" \/ MarshalID(id) \notin DOMAIN db.pending
       THEN [db |-> db1, err |-> DeleteErr]
       ELSE [db |-> db2, err |-> Nil]

\* (fault) the entry is removed from the pending bucket without being put
\* into the confirmed bucket
StoreIntermediateFnNoPut(db, id, data, fail) ==
    LET db2 == [db EXCEPT !.pending = Delete(@, MarshalID(id))]
    IN IF fail = "marshalData" THEN [db |-> db, err |-> MarshalErr]
       ELSE IF fail = "put" THEN [db |-> db, err |-> PutErr]
       ELSE IF fail = "marshalID" THEN [db |-> db, err |-> MarshalErr]
       ELSE IF fail = "delete" THEN [db |-> db, err |-> DeleteErr]
       ELSE [db |-> db2, err |-> Nil]

\* (fault) an id that is not pending is skipped: nothing is written
StoreIntermediateFnOnlyPending(db, id, data, fail) ==
    LET db1 == [db EXCEPT !.confirmed = Put(@, ToBytes(id), Marshal(data))]
        db2 == [db1 EXCEPT !.pending = Delete(@, MarshalID(id))]
    IN IF fail = "marshalData" THEN [db |-> db, err |-> MarshalErr]
       ELSE IF fail = "put" THEN [db |-> db, err |-> PutErr]
       ELSE IF fail = "marshalID" THEN [db |-> db1, err |-> MarshalErr]
       ELSE IF fail = "delete" THEN [db |-> db1, err |-> DeleteErr]
       ELSE IF MarshalID(id) \notin DOMAIN db.pending THEN [db |-> db, err |-> Nil]
       ELSE [db |-> db2, err |-> Nil]

\* the function StoreIntermediateTx passes to db.Update
StoreIntermediateFn(db, id, data, fail) ==
    LET db1 == [db EXCEPT !.confirmed = Put(@, ToBytes(id), Marshal(data))]
        db2 == [db1 EXCEPT !.pending = Delete(@, MarshalID(id))]
    IN IF fail = "marshalData" THEN [db |-> db, err |-> MarshalErr]
       ELSE IF fail = "put" THEN [db |-> db, err |-> PutErr]
       ELSE IF fail = "marshalID" THEN [db |-> db1, err |-> MarshalErr]
       ELSE IF fail = "delete" THEN [db |-> db1, err |-> DeleteErr]
       ELSE [db |-> db2, err |-> Nil]

StorePendingIntermediateTx(id, data, fail) ==
    LET r == Update(DB, StorePendingFn(DB, id, data, fail), fail = "commit")
    IN /\ pending' = r.db.pending
       /\ confirmed' = r.db.confirmed
       /\ inserted' = IF r.err = Nil /\ fail = "none"
                      THEN inserted \cup {id} ELSE inserted
       /\ last' = Call("StorePending", id, data, r.err)
       /\ UNCHANGED <<promoted, activity, storeVars, trades, bc, returned, reader, callers>>

StoreIntermediateTx(id, data, fail) ==
    LET r == Update(DB, StoreIntermediateFn(DB, id, data, fail), fail = "commit")
    IN /\ pending' = r.db.pending
       /\ confirmed' = r.db.confirmed
       /\ inserted' = IF r.err = Nil THEN inserted \cup {id} ELSE inserted
       /\ promoted' = IF r.err = Nil THEN promoted \cup {id} ELSE promoted
       /\ last' = Call("Promote", id, data, r.err)
       /\ UNCHANGED <<activity, storeVars, trades, bc, returned, reader, callers>>

(***************************************************************************)
(* Activity ledger (postgres table "activity")                             *)
(***************************************************************************)
LedgerIDs == {[Timepoint |-> 1, EID |-> "a"], [Timepoint |-> 1, EID |-> "b"],
              [Timepoint |-> 2, EID |-> "a"]}

ActionDeposit == "deposit"

ActionWithdraw == "withdraw"

Exchanges == {"binance", "huobi"}

Assets == {1, 2}

\* (action, destination, params.Asset) of the activities recorded
Kinds == {<<ActionDeposit, "binance", 1>>, <<ActionDeposit, "binance", 2>>,
          <<ActionDeposit, "huobi", 1>>, <<ActionWithdraw, "binance", 1>>}

\* (exchange status, mining status) pairs
SubmittedStatus == <<"submitted", "submitted">>

DoneStatus == <<"done", "mined">>

DepositKind == <<ActionDeposit, "binance", 1>>

\* (kind, result, statuses) of the activities a caller records: submitted
\* ones of every kind, and one whose statuses are already final
RecordInputs ==
    {<<k, "", SubmittedStatus>> : k \in Kinds}
        \cup {<<DepositKind, "0xabc", DoneStatus>>}

ActivityRecord(id, kind, result, status) ==
    [ID |-> id, Action |-> kind[1], Destination |-> kind[2],
     Params |-> [Asset |-> kind[3]], Result |-> result,
     ExchangeStatus |-> status[1], MiningStatus |-> status[2]]

\* ActivityRecord.IsPending(): no settlement event has been seen
IsPending(act) ==
    act.ExchangeStatus = "submitted" /\ act.MiningStatus = "submitted"

\* the records a caller passes to UpdateActivity for id
UpdateInputs(id) ==
    {ActivityRecord(id, k, "0xabc", DoneStatus) : k \in Kinds}
        \cup {ActivityRecord(id, DepositKind, "0xdef", DoneStatus),
              ActivityRecord(id, DepositKind, "", SubmittedStatus)}

\* WHERE timepoint = $1 AND eid = $2
RowsOf(rows, id) ==
    {i \in 1..Len(rows) : rows[i].timepoint = id.Timepoint /\ rows[i].eid = id.EID}

IsPendingRow(row) == row.is_pending

\* SELECT data FROM activity WHERE is_pending IS TRUE, unmarshalled
GetPendingActivities(rows) ==
    LET sel == SelectSeq(rows, IsPendingRow)
    IN [i \in 1..Len(sel) |-> Unmarshal(sel[i].data)]

\* GetActivity: the first row the query returns (any of the matching rows,
\* the query has no ORDER BY), or sql.ErrNoRows
GetActivity(rows, id) ==
    IF RowsOf(rows, id) = {} THEN {[record |-> Nil, err |-> "sql: no rows in result set"]}
    ELSE {[record |-> Unmarshal(rows[i].data), err |-> Nil] : i \in RowsOf(rows, id)}

\* (fault) the pending flag is written from the record without the
\* IsPending check
UpdateActivityRowsUnguarded(rows, id, act) ==
    [i \in 1..Len(rows) |->
        IF i \in RowsOf(rows, id)
        THEN [rows[i] EXCEPT !.is_pending = IsPending(act), !.data = Marshal(act)]
        ELSE rows[i]]

\* (fault) only rows that are still pending are written
UpdateActivityRowsFreeze(rows, id, act) ==
    IF ~IsPending(act)
    THEN [i \in 1..Len(rows) |->
            IF i \in RowsOf(rows, id) /\ rows[i].is_pending
            THEN [rows[i] EXCEPT !.is_pending = FALSE, !.data = Marshal(act)]
            ELSE rows[i]]
    ELSE rows

\* (fault) a settled record is inserted when no row has the id
UpdateActivityRowsUpsert(rows, id, act) ==
    IF ~IsPending(act)
    THEN IF RowsOf(rows, id) = {}
         THEN Append(rows, [timepoint |-> id.Timepoint, eid |-> id.EID,
                            is_pending |-> FALSE, data |-> Marshal(act)])
         ELSE [i \in 1..Len(rows) |->
                 IF i \in RowsOf(rows, id)
                 THEN [rows[i] EXCEPT !.is_pending = FALSE, !.data = Marshal(act)]
                 ELSE rows[i]]
    ELSE rows

\* (fault) the settled record is inserted as a new row instead of updating
\* the rows of the id
UpdateActivityRowsInsert(rows, id, act) ==
    IF RowsOf(rows, id) = {} THEN rows
    ELSE IF ~IsPending(act)
    THEN Append(rows, [timepoint |-> id.Timepoint, eid |-> id.EID,
                       is_pending |-> FALSE, data |-> Marshal(act)])
    ELSE rows

\* the table after UpdateActivity(id, act)
UpdateActivityRows(rows, id, act) ==
    IF RowsOf(rows, id) = {} THEN rows
    ELSE IF ~IsPending(act)
    THEN [i \in 1..Len(rows) |->
            IF i \in RowsOf(rows, id)
            THEN [rows[i] EXCEPT !.is_pending = FALSE, !.data = Marshal(act)]
            ELSE rows[i]]
    ELSE rows

UpdateActivity(id, act) ==
    /\ activity' = UpdateActivityRows(activity, id, act)
    /\ last' = [Call("UpdateActivity", id, act, Nil) EXCEPT
                   !.wasSettled = \E i \in RowsOf(activity, id) :
                                     ~activity[i].is_pending]
    /\ UNCHANGED <<boltVars, storeVars, trades, bc, returned, reader, callers>>

\* the table after the INSERT of Record
RecordRows(rows, id, record) ==
    Append(rows, [timepoint |-> id.Timepoint, eid |-> id.EID,
                  is_pending |-> TRUE, data |-> Marshal(record)])

Record(id, kind, result, status) ==
    LET record == ActivityRecord(id, kind, result, status)
    IN /\ Len(activity) < MaxRows
       /\ activity' = RecordRows(activity, id, record)
       /\ last' = Call("Record", id, record, Nil)
       /\ UNCHANGED <<boltVars, storeVars, trades, bc, returned, reader, callers>>

RECURSIVE scanAsset(_, _)
\* the loop of HasPendingDeposit over the selected rows
scanAsset(data, token) ==
    IF data = <<>> THEN FALSE
    ELSE IF Unmarshal(Head(data)).Params.Asset = token THEN TRUE
    ELSE scanAsset(Tail(data), token)

\* (fault) the query misses the "is_pending IS TRUE" condition
IsDepositTo(row, exchange) ==
    /\ Unmarshal(row.data).Action = ActionDeposit
    /\ Unmarshal(row.data).Destination = exchange

\* WHERE is_pending IS TRUE AND data->>'Action' = $1 AND data->>'Destination' = $2
IsPendingDepositTo(row, exchange) ==
    /\ row.is_pending
    /\ Unmarshal(row.data).Action = ActionDeposit
    /\ Unmarshal(row.data).Destination = exchange

HasPendingDeposit(rows, token, exchange) ==
    LET sel == SelectSeq(rows, LAMBDA row : IsPendingDepositTo(row, exchange))
    IN scanAsset([i \in 1..Len(sel) |-> sel[i].data], token)

(***************************************************************************)
(* Snapshot store (postgres table "fetch_data")                            *)
(***************************************************************************)
\* the clock readings, in milliseconds
Times == {250 * k : k \in 1..MaxTick}

\* retention of auth snapshots, in milliseconds (declared outside the files
\* modelled; the value here is a scaled stand-in)
authDataExpiredDuration == 500

\* the timepoints passed to the export and the prune: the cutoff runs from
\* the second clock reading to past the last one
ExpireTimes == {authDataExpiredDuration + 250 * k : k \in 2..(MaxTick + 1)}

\* the Go types stored, with the fetch_data_type of each
GoTypes == {"AllPriceEntry", "AuthDataSnapshot", "USDData"}

Payloads == {"P1", "P2"}

priceDataType == "price"

authDataType == "auth_data"

usdDataType == "usd"

DataTypes == {priceDataType, authDataType, usdDataType}

ErrNoRows == "sql: no rows in result set"

getDataType(data) ==
    CASE data.gotype = "AuthDataSnapshot" -> authDataType
      [] data.gotype = "USDData" -> usdDataType
      [] data.gotype = "AllPriceEntry" -> priceDataType

\* common.MillisToTime: the time.Time of a millisecond timepoint
MillisToTime(ms) == [sec |-> ms \div 1000, nsec |-> (ms % 1000) * 1000000]

\* a < b and a <= b on timestamps
TimeBefore(a, b) == a.sec < b.sec \/ (a.sec = b.sec /\ a.nsec < b.nsec)

TimeNotAfter(a, b) == a = b \/ TimeBefore(a, b)

\* INSERT INTO fetch_data (created, data, type): id is the next sequence value
InsertFetchData(rows, id, timestamp, dataJSON, dataType) ==
    Append(rows, [id |-> id, created |-> timestamp, data |-> dataJSON,
                  type |-> dataType])

storeFetchData(data, timepoint) ==
    /\ serial < MaxStores
    /\ serial' = serial + 1
    /\ fetchData' = InsertFetchData(fetchData, serial + 1, MillisToTime(timepoint),
                                    Marshal(data), getDataType(data))
    /\ returned' = Nil
    /\ last' = Call("Store", getDataType(data),
                     [timepoint |-> timepoint, data |-> data], Nil)
    /\ UNCHANGED <<boltVars, activity, outFile, trades, bc, reader, callers>>

\* the WHERE clause without its type condition
VersionCandidatesAnyType(rows, dataType, timestamp) ==
    {i \in 1..Len(rows) : TimeNotAfter(rows[i].created, timestamp)}

\* WHERE created <= $1 and type = $2
VersionCandidates(rows, dataType, timestamp) ==
    {i \in 1..Len(rows) :
        TimeNotAfter(rows[i].created, timestamp) /\ rows[i].type = dataType}

\* the query with ORDER BY created ASC
currentVersionOldest(rows, dataType, timepoint) ==
    LET cand == VersionCandidates(rows, dataType, MillisToTime(timepoint))
        first == {i \in cand :
                     \A j \in cand : TimeNotAfter(rows[i].created, rows[j].created)}
    IN IF cand = {}
       THEN {[v |-> 0, err |-> "there is no version at timestamp"]}
       ELSE {[v |-> rows[i].id, err |-> Nil] : i \in first}

\* currentVersion: ORDER BY created DESC LIMIT 1 returns a row with the
\* greatest created time (any of them when several rows share it)
currentVersion(rows, dataType, timepoint) ==
    LET cand == VersionCandidates(rows, dataType, MillisToTime(timepoint))
        first == {i \in cand :
                     \A j \in cand : TimeNotAfter(rows[j].created, rows[i].created)}
    IN IF cand = {}
       THEN {[v |-> 0, err |-> "there is no version at timestamp"]}
       ELSE {[v |-> rows[i].id, err |-> Nil] : i \in first}

\* the query with WHERE id = $1 only
getDataAnyType(rows, gotype, v) ==
    LET sel == {i \in 1..Len(rows) : rows[i].id = v}
    IN IF sel = {}
       THEN [data |-> Nil, err |-> ErrNoRows]
       ELSE [data |-> Unmarshal(rows[CHOOSE i \in sel : TRUE].data), err |-> Nil]

\* getData: SELECT data WHERE id = $1 AND type = $2, unmarshalled into o
getData(rows, gotype, v) ==
    LET dataType == getDataType([gotype |-> gotype])
        sel == {i \in 1..Len(rows) : rows[i].id = v /\ rows[i].type = dataType}
    IN IF sel = {}
       THEN [data |-> Nil, err |-> ErrNoRows]
       ELSE [data |-> Unmarshal(rows[CHOOSE i \in sel : TRUE].data), err |-> Nil]

\* the predicate with created <= $2
IsExpiredInclusive(row, timepoint) ==
    /\ row.type = authDataType
    /\ TimeNotAfter(row.created, MillisToTime(timepoint - authDataExpiredDuration))

\* WHERE type = $1 AND created < $2, with $2 = timepoint - authDataExpiredDuration
IsExpired(row, timepoint) ==
    /\ row.type = authDataType
    /\ TimeBefore(row.created, MillisToTime(timepoint - authDataExpiredDuration))

\* the failures of the export sink (the database is taken fault-free)
ExportFailures == {"none", "create", "writeData", "writeNewline"}

\* ExportExpiredAuthData: the lines written and the values returned; a
\* failure of the sink hits the first record
ExportExpired(rows, timepoint, fail) ==
    LET sel == SelectSeq(rows, LAMBDA row : IsExpired(row, timepoint))
        lines == [i \in 1..Len(sel) |-> sel[i].data]
    IN IF fail = "create" THEN [file |-> outFile, count |-> 0, err |-> "create failed"]
       ELSE IF sel = <<>> THEN [file |-> <<>>, count |-> 0, err |-> Nil]
       ELSE IF fail = "writeNewline"
       THEN [file |-> <<Head(lines)>>, count |-> 0, err |-> "write failed"]
       ELSE IF fail = "writeData"
       THEN [file |-> <<<<>>>> \o Tail(lines), count |-> Len(lines), err |-> Nil]
       ELSE [file |-> lines, count |-> Len(lines), err |-> Nil]

ExportExpiredAuthData(timepoint, fail) ==
    LET r == ExportExpired(fetchData, timepoint, fail)
    IN /\ outFile' = r.file
       /\ returned' = r.count
       /\ last' = Call("Export", authDataType, timepoint, r.err)
       /\ UNCHANGED <<boltVars, activity, fetchData, serial, trades, bc, reader, callers>>

\* the table after DELETE ... WHERE created < $2
PruneRowsAnyType(rows, timepoint) ==
    SelectSeq(rows, LAMBDA row :
        ~TimeBefore(row.created, MillisToTime(timepoint - authDataExpiredDuration)))

\* the table after DELETE ... WHERE type = $1 AND created < $2
PruneRows(rows, timepoint) ==
    SelectSeq(rows, LAMBDA row : ~IsExpired(row, timepoint))

PruneExpiredAuthData(timepoint) ==
    /\ fetchData' = PruneRows(fetchData, timepoint)
    /\ returned' = Len(fetchData) - Len(PruneRows(fetchData, timepoint))
    /\ last' = Call("Prune", authDataType, timepoint, Nil)
    /\ UNCHANGED <<boltVars, activity, serial, outFile, trades, bc, reader, callers>>

(***************************************************************************)
(* Trade history (bolt bucket trade_history)                               *)
(***************************************************************************)
\* width of the unsigned timestamps, scaled down from the 64 bits of uint64
UintBits == 4

UintMod == 2 ^ UintBits

Uints == 0..(UintMod - 1)

\* the widest window served; timestamps are counted in days (86400000 ms)
maxGetTradeHistory == 3

TooBroadErr == "time range is too broad, it must be smaller or equal to 3 days (miliseconds)"

Pairs == {1, 2}

\* timestamps with one and with two decimal digits
TradeTimes == {9, 10, 11, 12}

TradeIDs == {"a", "b"}

TradeHistory(id, timestamp) == [ID |-> id, Timestamp |-> timestamp]

\* the histories passed to StoreTradeHistory: one trade of one pair
TradeInputs ==
    {[p \in {pair} |-> <<TradeHistory(id, t)>>] :
        pair \in Pairs, id \in TradeIDs, t \in TradeTimes}

TradeFailures == {"none", "put", "commit"}

\* strconv.FormatUint(n, 10), as bytes
RECURSIVE FormatUint(_)
FormatUint(n) ==
    IF n < 10 THEN <<48 + n>> ELSE FormatUint(n \div 10) \o <<48 + (n % 10)>>

IDBytes == [id \in TradeIDs |-> IF id = "a" THEN <<97>> ELSE <<98>>]

\* fmt.Sprintf("%s%s", strconv.FormatUint(history.Timestamp, 10), history.ID)
TradeKey(history) == FormatUint(history.Timestamp) \o IDBytes[history.ID]

\* bytes.Compare(a, b): -1, 0 or 1 in lexicographic byte order
RECURSIVE Compare(_, _)
Compare(a, b) ==
    IF a = <<>> THEN (IF b = <<>> THEN 0 ELSE -1)
    ELSE IF b = <<>> THEN 1
    ELSE IF Head(a) < Head(b) THEN -1
    ELSE IF Head(a) > Head(b) THEN 1
    ELSE Compare(Tail(a), Tail(b))

\* Cursor.Seek(k): the first key >= k, <<>> (nil) past the end
CursorSeek(bucket, k) ==
    LET ge == {x \in DOMAIN bucket : Compare(x, k) >= 0}
    IN IF ge = {} THEN <<>>
       ELSE CHOOSE x \in ge : \A y \in ge : Compare(x, y) <= 0

\* Cursor.Next() after key k: the first key > k, <<>> (nil) past the end
CursorNext(bucket, k) ==
    LET gt == {x \in DOMAIN bucket : Compare(x, k) > 0}
    IN IF gt = {} THEN <<>>
       ELSE CHOOSE x \in gt : \A y \in gt : Compare(x, y) <= 0

\* the inner loop of StoreTradeHistory: a Put per trade of the pair
RECURSIVE PutHistory(_, _, _)
PutHistory(bucket, pairHistory, fail) ==
    IF pairHistory = <<>> THEN [db |-> bucket, err |-> Nil]
    ELSE IF fail = "put" THEN [db |-> bucket, err |-> PutErr]
    ELSE PutHistory(Put(bucket, TradeKey(Head(pairHistory)),
                        Marshal(Head(pairHistory))),
                    Tail(pairHistory), fail)

\* the function run inside db.Update by StoreTradeHistory, over the pairs
\* left; a failure rolls the transaction back, so the order of the range
\* over the map does not show
RECURSIVE StoreTradeFn(_, _, _, _)
StoreTradeFn(db, data, left, fail) ==
    IF left = {} THEN [db |-> db, err |-> Nil]
    ELSE LET pair == CHOOSE p \in left : TRUE
             withBk == IF pair \in DOMAIN db THEN db ELSE Put(db, pair, EmptyBucket)
             res == PutHistory(withBk[pair], data[pair], fail)
         IN IF res.err # Nil
            THEN [db |-> Put(withBk, pair, res.db), err |-> res.err]
            ELSE StoreTradeFn(Put(withBk, pair, res.db), data, left \ {pair}, fail)

\* the number of trades held in the bucket
RECURSIVE TradeCount(_)
TradeCount(db) ==
    IF DOMAIN db = {} THEN 0
    ELSE LET pair == CHOOSE p \in DOMAIN db : TRUE
         IN Cardinality(DOMAIN db[pair]) + TradeCount(Delete(db, pair))

StoreTradeHistory(data, fail) ==
    LET res == Update(trades, StoreTradeFn(trades, data, DOMAIN data, fail),
                      fail = "commit")
    IN /\ TradeCount(res.db) <= MaxTrades
       /\ trades' = res.db
       /\ returned' = Nil
       /\ last' = Call("StoreTradeHistory", Nil, data, res.err)
       /\ UNCHANGED <<boltVars, activity, storeVars, bc, reader, callers>>

\* the loop over one pair bucket, from the key the cursor is at:
\* for pairKey != nil && bytes.Compare(pairKey, max) <= 0
RECURSIVE ScanPair(_, _, _)
ScanPair(bucket, pairKey, max) ==
    IF pairKey = <<>> \/ Compare(pairKey, max) > 0 THEN <<>>
    ELSE <<Unmarshal(bucket[pairKey])>>
             \o ScanPair(bucket, CursorNext(bucket, pairKey), max)

\* (fault) the window is measured without the wrap of unsigned subtraction
GetTradeHistoryNoWrap(db, fromTime, toTime) ==
    IF toTime - fromTime > maxGetTradeHistory
    THEN [result |-> EmptyBucket, err |-> TooBroadErr, viewed |-> FALSE]
    ELSE [result |-> [pair \in DOMAIN db |->
                         ScanPair(db[pair],
                                  CursorSeek(db[pair], FormatUint(fromTime)),
                                  FormatUint(toTime))],
          err |-> Nil, viewed |-> TRUE]

\* GetTradeHistory: the result, the error, and whether db.View was entered
GetTradeHistory(db, fromTime, toTime) ==
    IF (toTime - fromTime) % UintMod > maxGetTradeHistory
    THEN [result |-> EmptyBucket, err |-> TooBroadErr, viewed |-> FALSE]
    ELSE LET min == FormatUint(fromTime)
             max == FormatUint(toTime)
         IN [result |-> [pair \in DOMAIN db |->
                            ScanPair(db[pair], CursorSeek(db[pair], min), max)],
             err |-> Nil, viewed |-> TRUE]

(***************************************************************************)
(* Rebroadcaster                                                           *)
(***************************************************************************)
Nodes == 1..MaxNodes

\* what client.SendTransaction returns: nil, an error of the node, or the
\* error of the 3 second context
SendResults == {Nil, "rejected", "context deadline exceeded"}

\* no node: the value of sending while no SendTransaction is running
NoNode == 0

\* an empty sync.Map / map[string]error
NoFailures == [id \in {} |-> Nil]

\* before NewRebroadcaster
NoRebroadcaster ==
    [pc |-> "new", clients |-> {}, left |-> {}, sending |-> NoNode, wg |-> 0,
     failures |-> NoFailures, sent |-> NoFailures, result |-> NoFailures, ok |-> FALSE]

NewRebroadcaster(clients) ==
    /\ bc.pc = "new"
    /\ bc' = [bc EXCEPT !.pc = "idle", !.clients = clients]
    /\ UNCHANGED <<boltVars, activity, storeVars, trades, returned, last, reader, callers>>

\* Broadcast is entered: failures := sync.Map{}, wg := sync.WaitGroup{}
BroadcastEnter ==
    /\ bc.pc \in {"idle", "done"}
    /\ bc' = [bc EXCEPT !.pc = "loop", !.left = bc.clients, !.sending = NoNode,
                        !.wg = 0, !.failures = NoFailures, !.sent = NoFailures,
                        !.result = NoFailures, !.ok = FALSE]
    /\ UNCHANGED <<boltVars, activity, storeVars, trades, returned, last, reader, callers>>

\* one turn of the range loop up to the call of self.broadcast: wg.Add(1) and
\* SendTransaction is issued to the node
BroadcastLoop(id) ==
    /\ bc.pc = "loop"
    /\ id \in bc.left
    /\ bc' = [bc EXCEPT !.pc = "sending", !.left = bc.left \ {id},
                        !.sending = id, !.wg = bc.wg + 1]
    /\ UNCHANGED <<boltVars, activity, storeVars, trades, returned, last, reader, callers>>

\* (fault) an error of the context (the timeout) is not stored
broadcastDropTimeout(err) ==
    /\ bc.pc = "sending"
    /\ bc' = [bc EXCEPT !.pc = "loop", !.sending = NoNode, !.wg = bc.wg - 1,
                        !.sent = Put(bc.sent, bc.sending, err),
                        !.failures = IF err = "rejected"
                                     THEN Put(bc.failures, bc.sending, err)
                                     ELSE bc.failures]
    /\ UNCHANGED <<boltVars, activity, storeVars, trades, returned, last, reader, callers>>

\* self.broadcast returns into the loop: SendTransaction returned err, the
\* error is stored under the node id, wg.Done()
broadcast(err) ==
    /\ bc.pc = "sending"
    /\ bc' = [bc EXCEPT !.pc = "loop", !.sending = NoNode, !.wg = bc.wg - 1,
                        !.sent = Put(bc.sent, bc.sending, err),
                        !.failures = IF err # Nil
                                     THEN Put(bc.failures, bc.sending, err)
                                     ELSE bc.failures]
    /\ UNCHANGED <<boltVars, activity, storeVars, trades, returned, last, reader, callers>>

\* the flag as "every node accepted"
BroadcastAll(result, clients) ==
    Cardinality(DOMAIN result) = 0 /\ Cardinality(clients) > 0

\* the flag as "some node accepted and some node failed"
BroadcastPartial(result, clients) ==
    /\ Cardinality(DOMAIN result) # Cardinality(clients)
    /\ Cardinality(DOMAIN result) > 0

\* the value of len(result) != len(self.clients) && len(self.clients) > 0
BroadcastOK(result, clients) ==
    Cardinality(DOMAIN result) # Cardinality(clients) /\ Cardinality(clients) > 0

\* (fault) Broadcast returns without waiting for the loop and the WaitGroup
BroadcastReturnEarly ==
    /\ bc.pc \in {"loop", "sending"}
    /\ bc' = [bc EXCEPT !.pc = "done", !.result = bc.failures,
                        !.ok = BroadcastOK(bc.failures, bc.clients)]
    /\ UNCHANGED <<boltVars, activity, storeVars, trades, returned, last, reader, callers>>

\* the loop is over: wg.Wait() passes, failures is copied into result
BroadcastReturn ==
    /\ bc.pc = "loop"
    /\ bc.left = {}
    /\ bc.wg = 0
    /\ bc' = [bc EXCEPT !.pc = "done", !.result = bc.failures,
                        !.ok = BroadcastOK(bc.failures, bc.clients)]
    /\ UNCHANGED <<boltVars, activity, storeVars, trades, returned, last, reader, callers>>

(***************************************************************************)
(* A reader of the intermediate transactions, concurrent with the writers  *)
(***************************************************************************)
\* before the reader has read anything
NoReader ==
    [pc |-> "idle", id |-> [Timepoint |-> 0, EID |-> ""], first |-> "",
     inPending |-> FALSE, inConfirmed |-> FALSE, committed |-> FALSE]

\* the id is among the keys GetPendingIntermediateTXs returns
ListsPending(id) == id \in DOMAIN GetPendingIntermediateTXs(pending)

\* GetIntermedatorTx(id) returns an entry
GetsConfirmed(id) == GetIntermedatorTx(confirmed, id).err = Nil

\* the reader's first call, each in a db.View of its own, about an id that
\* is pending and not yet confirmed
ReaderFirst(id, call) ==
    /\ reader.pc \in {"idle", "done"}
    /\ ListsPending(id)
    /\ ~GetsConfirmed(id)
    /\ reader' = [pc |-> "one", id |-> id, first |-> call,
                  inPending |-> call = "list" /\ ListsPending(id),
                  inConfirmed |-> call = "get" /\ GetsConfirmed(id),
                  committed |-> FALSE]
    /\ UNCHANGED <<boltVars, activity, storeVars, trades, bc, callers,
                   returned, last>>

\* the reader's other call; committed: StoreIntermediateTx of the id has
\* committed since the first call
ReaderSecond ==
    /\ reader.pc = "one"
    /\ reader' = [reader EXCEPT
                     !.pc = "done",
                     !.inPending = IF reader.first = "get"
                                   THEN ListsPending(reader.id) ELSE @,
                     !.inConfirmed = IF reader.first = "list"
                                     THEN GetsConfirmed(reader.id) ELSE @,
                     !.committed = reader.id \in promoted]
    /\ UNCHANGED <<boltVars, activity, storeVars, trades, bc, callers,
                   returned, last>>

(***************************************************************************)
(* Callers that deposit after asking HasPendingDeposit                     *)
(***************************************************************************)
Callers == 1..MaxCallers

\* the activity id a caller records under
CallerID(c) == [Timepoint |-> c, EID |-> "a"]

NoCallers ==
    [c \in Callers |-> [pc |-> "idle", asset |-> 0, exchange |-> ""]]

\* HasPendingDeposit(asset, exchange) returned false to caller c
CallerCheck(c, asset, exchange) ==
    /\ callers[c].pc = "idle"
    /\ ~HasPendingDeposit(activity, asset, exchange)
    /\ callers' = [callers EXCEPT ![c] = [pc |-> "clear", asset |-> asset,
                                          exchange |-> exchange]]
    /\ UNCHANGED <<boltVars, activity, storeVars, trades, bc, reader,
                   returned, last>>

\* caller c records the deposit it was cleared for
CallerRecord(c) ==
    LET record == ActivityRecord(CallerID(c),
                                 <<ActionDeposit, callers[c].exchange,
                                   callers[c].asset>>,
                                 "", SubmittedStatus)
    IN /\ callers[c].pc = "clear"
       /\ activity' = RecordRows(activity, CallerID(c), record)
       /\ last' = Call("Record", CallerID(c), record, Nil)
       /\ callers' = [callers EXCEPT ![c].pc = "recorded"]
       /\ UNCHANGED <<boltVars, storeVars, trades, bc, reader, returned>>

\* the deposit of caller c is settled and the caller is free again
CallerSettle(c) ==
    LET act == ActivityRecord(CallerID(c),
                              <<ActionDeposit, callers[c].exchange,
                                callers[c].asset>>,
                              "0xabc", DoneStatus)
    IN /\ callers[c].pc = "recorded"
       /\ activity' = UpdateActivityRows(activity, CallerID(c), act)
       /\ last' = Call("UpdateActivity", CallerID(c), act, Nil)
       /\ callers' = [callers EXCEPT ![c].pc = "settled"]
       /\ UNCHANGED <<boltVars, storeVars, trades, bc, reader, returned>>

Init ==
    /\ pending = EmptyBucket
    /\ confirmed = EmptyBucket
    /\ inserted = {}
    /\ promoted = {}
    /\ activity = <<>>
    /\ fetchData = <<>>
    /\ serial = 0
    /\ outFile = <<>>
    /\ trades = EmptyBucket
    /\ bc = NoRebroadcaster
    /\ reader = NoReader
    /\ callers = NoCallers
    /\ returned = Nil
    /\ last = [op |-> "NewStorage", id |-> Nil, arg |-> Nil, err |-> Nil,
               again |-> FALSE, afterStore |-> FALSE, wasSettled |-> FALSE]

NextTx ==
    \/ \E id \in ActivityIDs, data \in TXEntries, fail \in StoreFailures :
          StorePendingIntermediateTx(id, data, fail)
    \/ \E id \in ActivityIDs, data \in TXEntries, fail \in PromoteFailures :
          StoreIntermediateTx(id, data, fail)

SpecTx == Init /\ [][NextTx]_vars

NextLedger ==
    \/ \E id \in LedgerIDs, in \in RecordInputs : Record(id, in[1], in[2], in[3])
    \/ \E id \in LedgerIDs : \E act \in UpdateInputs(id) : UpdateActivity(id, act)

SpecLedger == Init /\ [][NextLedger]_vars

\* the snapshot store written by the fetchers and pruned by the retention job
NextStore ==
    \/ \E gotype \in GoTypes, p \in Payloads, timepoint \in Times :
          storeFetchData([gotype |-> gotype, v |-> p], timepoint)
    \/ \E timepoint \in ExpireTimes : PruneExpiredAuthData(timepoint)

SpecStore == Init /\ [][NextStore]_vars

NextTrade ==
    \E data \in TradeInputs, fail \in TradeFailures : StoreTradeHistory(data, fail)

SpecTrade == Init /\ [][NextTrade]_vars

NextBroadcast ==
    \/ \E clients \in SUBSET Nodes : NewRebroadcaster(clients)
    \/ BroadcastEnter
    \/ \E id \in Nodes : BroadcastLoop(id)
    \/ \E err \in SendResults : broadcast(err)
    \/ BroadcastReturn

SpecBroadcast == Init /\ [][NextBroadcast]_vars

\* the goroutine running Broadcast keeps taking its steps, and every
\* SendTransaction returns (with nil, an error, or the context's deadline)
BroadcastFairness ==
    /\ WF_vars(\E id \in Nodes : BroadcastLoop(id))
    /\ WF_vars(\E err \in SendResults : broadcast(err))
    /\ WF_vars(BroadcastReturn)

SpecBroadcastFair == SpecBroadcast /\ BroadcastFairness

\* a reader running next to the writers of the intermediate transactions;
\* a pending entry is stored while the reader is not between its two calls
NextReader ==
    \/ \E id \in ActivityIDs :
          reader.pc # "one" /\ StorePendingIntermediateTx(id, "tx1", "none")
    \/ \E id \in ActivityIDs, fail \in {"none", "commit"} :
          StoreIntermediateTx(id, "tx1", fail)
    \/ \E id \in ActivityIDs, call \in {"list", "get"} : ReaderFirst(id, call)
    \/ ReaderSecond

SpecReader == Init /\ [][NextReader]_vars

\* callers that check HasPendingDeposit and then record, in any interleaving
NextAdmission ==
    \/ \E c \in Callers, asset \in Assets, exchange \in Exchanges :
          CallerCheck(c, asset, exchange)
    \/ \E c \in Callers : CallerRecord(c)
    \/ \E c \in Callers : CallerSettle(c)

SpecAdmission == Init /\ [][NextAdmission]_vars

\* the snapshots stored while the retention job runs
ExportData ==
    {[gotype |-> "AuthDataSnapshot", v |-> p] : p \in Payloads}
        \cup {[gotype |-> "AllPriceEntry", v |-> "P1"]}

\* the retention job: export, then prune, while snapshots are stored
NextExport ==
    \/ \E data \in ExportData, timepoint \in Times : storeFetchData(data, timepoint)
    \/ \E timepoint \in ExpireTimes, fail \in ExportFailures :
          ExportExpiredAuthData(timepoint, fail)
    \/ \E timepoint \in ExpireTimes : PruneExpiredAuthData(timepoint)

SpecExport == Init /\ [][NextExport]_vars

(***************************************************************************)
(* Properties of the intermediate-transaction buckets                      *)
(***************************************************************************)
InPending(id) == id \in DOMAIN GetPendingIntermediateTXs(pending)

InConfirmed(id) == GetIntermedatorTx(confirmed, id).err = Nil

\* C1: in every reachable state each id is in at most one of the pending and
\* confirmed buckets, and an id that has been inserted is in at least one.
C1_OneBucketPerID ==
    \A id \in ActivityIDs :
        /\ ~(InPending(id) /\ InConfirmed(id))
        /\ id \in inserted => InPending(id) \/ InConfirmed(id)

\* C2: a StoreIntermediateTx call that returns an error, at whichever of its
\* sub-steps, leaves both buckets exactly as they were before the call.
C2_FailedPromoteChangesNothing ==
    [][(last'.op = "Promote" /\ last'.err # Nil)
          => (pending' = pending /\ confirmed' = confirmed)]_vars

\* a promotion of a pending id failed at the delete, after the put into the
\* confirmed bucket: the id is still pending and not confirmed
C2_Witness ==
    /\ last.op = "Promote"
    /\ last.err = DeleteErr
    /\ InPending(last.id)
    /\ ~InConfirmed(last.id)

C3_Before ==
    \A id \in ActivityIDs :
        id \notin promoted => GetIntermedatorTx(confirmed, id).err = NotFoundErr

C3_After ==
    (last'.op = "Promote" /\ last'.err = Nil /\ last'.afterStore)
        => /\ GetIntermedatorTx(confirmed', last'.id) = [tx |-> last'.arg, err |-> Nil]
           /\ last'.id \notin DOMAIN GetPendingIntermediateTXs(pending')

\* C3: after a successful StorePending(id, tx) followed by a successful
\* Promote(id, tx), GetIntermedatorTx(id) returns tx and the pending map does
\* not contain id; before any Promote of id, GetIntermedatorTx(id) fails with
\* the "please try later" error.
C3_PromoteThenGetConfirmed == []C3_Before /\ [][C3_After]_vars

\* a promotion directly after the StorePending of the same id and entry
\* succeeded, while another id is still waiting in the pending bucket
C3_Witness ==
    /\ last.op = "Promote"
    /\ last.err = Nil
    /\ last.afterStore
    /\ GetIntermedatorTx(confirmed, last.id).tx = last.arg
    /\ \E id \in ActivityIDs : InPending(id) /\ id \notin promoted

(***************************************************************************)
(* Properties of the activity ledger                                       *)
(***************************************************************************)
RowID(row) == [Timepoint |-> row.timepoint, EID |-> row.eid]

C4_RecordRejectsDuplicate ==
    (last'.op = "Record" /\ RowsOf(activity, last'.id) # {})
        => (last'.err # Nil /\ activity' = activity)

C4_UniqueIDs ==
    \A i, j \in 1..Len(activity) :
        RowID(activity[i]) = RowID(activity[j]) => i = j

\* C4: Record fails and leaves the ledger unchanged when an activity with the
\* same id (timepoint, eid) exists; the ledger never holds two entries with
\* the same id.
C4_NoDuplicateActivity == [][C4_RecordRejectsDuplicate]_vars /\ []C4_UniqueIDs

\* C5: once the pending flag of a stored activity record is false, no Record
\* or UpdateActivity call makes it true again.
C5_SettledIsTerminal ==
    [][\A i \in 1..Len(activity) :
          ~activity[i].is_pending
              => (i <= Len(activity') /\ ~activity'[i].is_pending)]_vars

\* UpdateActivity was called with a still-pending record on an id that had
\* been settled, and the id's row is still settled
C5_Witness ==
    /\ last.op = "UpdateActivity"
    /\ IsPending(last.arg)
    /\ last.wasSettled
    /\ \E i \in RowsOf(activity, last.id) : ~activity[i].is_pending

\* C6 (as claimed): after the UpdateActivity call that settles a record, no
\* later UpdateActivity call changes the stored record.
C6_FrozenAfterSettle ==
    [][\A i \in 1..Len(activity) :
          (~activity[i].is_pending /\ last'.op = "UpdateActivity")
              => activity'[i] = activity[i]]_vars

\* C6 (amended): a settled record keeps its pending flag false and is left
\* unchanged by an UpdateActivity with a still-pending record or for another
\* id; an UpdateActivity of its id with a settled record overwrites its
\* payload with that record.
C6_SettledOverwrittenOnlyBySettled ==
    [][\A i \in 1..Len(activity) :
          ~activity[i].is_pending
              => /\ i <= Len(activity')
                 /\ ~activity'[i].is_pending
                 /\ IF /\ last'.op = "UpdateActivity"
                       /\ last'.id = RowID(activity[i])
                       /\ ~IsPending(last'.arg)
                    THEN activity'[i].data = Marshal(last'.arg)
                    ELSE activity'[i] = activity[i]]_vars

\* a second settling UpdateActivity replaced the payload of a settled record
C6_Witness ==
    /\ last.op = "UpdateActivity"
    /\ last.wasSettled
    /\ ~last.again
    /\ ~IsPending(last.arg)
    /\ last.arg.Result = "0xdef"
    /\ \E i \in RowsOf(activity, last.id) : Unmarshal(activity[i].data) = last.arg

PendingIDs(rows) ==
    {GetPendingActivities(rows)[i].ID : i \in 1..Len(GetPendingActivities(rows))}

SettledID(id) == \E i \in RowsOf(activity, id) : ~activity[i].is_pending

C8_AfterUpdate ==
    (/\ last'.op = "UpdateActivity"
     /\ RowsOf(activity, last'.id) # {}
     /\ ~IsPending(last'.arg))
        => /\ GetActivity(activity', last'.id) = {[record |-> last'.arg, err |-> Nil]}
           /\ last'.id \notin PendingIDs(activity')

C8_Pending ==
    \A id \in LedgerIDs :
        /\ SettledID(id) => id \notin PendingIDs(activity)
        /\ (RowsOf(activity, id) # {} /\ ~SettledID(id)) => id \in PendingIDs(activity)

\* C8: after Record(id) and UpdateActivity(id, r) with a settled r,
\* GetActivity(id) returns r and every later GetPendingActivities() excludes
\* id; before the update GetPendingActivities() includes id.
C8_SettledLeavesPendingSet == [][C8_AfterUpdate]_vars /\ []C8_Pending

\* C9: an UpdateActivity(id, r) with a settled r that repeats the previous
\* call returns nil and leaves the table as the first call left it.
C9_UpdateIdempotent ==
    [][(last'.op = "UpdateActivity" /\ last'.again /\ ~IsPending(last'.arg))
          => (last'.err = Nil /\ activity' = activity)]_vars

\* the same settled record was passed twice in a row for an id that has a row
C9_Witness ==
    /\ last.op = "UpdateActivity"
    /\ last.again
    /\ ~IsPending(last.arg)
    /\ \E i \in RowsOf(activity, last.id) : Unmarshal(activity[i].data) = last.arg

\* C10: HasPendingDeposit(asset, exchange) is true exactly when some row is
\* pending and its record has action deposit, destination exchange and
\* params asset.
C10_HasPendingDepositIff ==
    \A token \in Assets, exchange \in Exchanges :
        HasPendingDeposit(activity, token, exchange)
            <=> \E i \in 1..Len(activity) :
                    /\ activity[i].is_pending
                    /\ Unmarshal(activity[i].data).Action = ActionDeposit
                    /\ Unmarshal(activity[i].data).Destination = exchange
                    /\ Unmarshal(activity[i].data).Params.Asset = token

\* a pending deposit of asset 1 to binance next to a settled deposit of
\* asset 2 to binance: true for asset 1, false for asset 2 and for huobi
C10_Witness ==
    /\ HasPendingDeposit(activity, 1, "binance")
    /\ ~HasPendingDeposit(activity, 2, "binance")
    /\ ~HasPendingDeposit(activity, 1, "huobi")
    /\ \E i \in 1..Len(activity) :
          /\ ~activity[i].is_pending
          /\ Unmarshal(activity[i].data).Action = ActionDeposit
          /\ Unmarshal(activity[i].data).Destination = "binance"
          /\ Unmarshal(activity[i].data).Params.Asset = 2

(***************************************************************************)
(* Snapshot store: versions                                                *)
(***************************************************************************)
\* the timestamps asked for: before, at, between and after the clock readings
QueryTimes == {125 * k : k \in 1..(2 * MaxTick + 1)}

\* created of a row, back in milliseconds
CreatedMillis(row) == row.created.sec * 1000 + row.created.nsec \div 1000000

\* the rows of a category created at or before t
AsOf(dataType, t) ==
    {i \in 1..Len(fetchData) :
        fetchData[i].type = dataType /\ CreatedMillis(fetchData[i]) <= t}

\* C11: CurrentVersion(category, timestamp) returns the greatest id among
\* the records of the category with created <= timestamp, whatever the order
\* of the stored timestamps.
C11_GreatestID ==
    \A dataType \in DataTypes, t \in QueryTimes :
        \A r \in currentVersion(fetchData, dataType, t) :
            r.err = Nil =>
                \A i \in AsOf(dataType, t) : fetchData[i].id <= r.v

\* the version at the latest clock reading, after every stored record
LatestTime == 250 * MaxTick

\* C12: every Store of a category makes CurrentVersion, asked at a timestamp
\* not earlier than any created time, return a strictly greater version than
\* before the call.
C12_VersionStrictlyIncreases ==
    [][last'.op = "Store" =>
          \A r \in currentVersion(fetchData, last'.id, LatestTime),
             q \in currentVersion(fetchData', last'.id, LatestTime) :
              (r.err = Nil /\ q.err = Nil) => q.v > r.v]_vars

\* C13: CurrentVersion(category, timestamp) fails with the not-found error
\* exactly when no record of the category has created <= timestamp; records
\* of other categories do not count.
C13_NotFoundIff ==
    \A dataType \in DataTypes, t \in QueryTimes :
        \A r \in currentVersion(fetchData, dataType, t) :
            /\ r.err \in {Nil, "there is no version at timestamp"}
            /\ r.err # Nil <=> AsOf(dataType, t) = {}

\* a price record created at 250 and no usd record at or before 375: the
\* price query succeeds and the usd query fails
C13_Witness ==
    /\ \E i \in 1..Len(fetchData) :
          fetchData[i].type = priceDataType /\ CreatedMillis(fetchData[i]) = 250
    /\ \E i \in 1..Len(fetchData) :
          fetchData[i].type = usdDataType /\ CreatedMillis(fetchData[i]) = 500
    /\ \A r \in currentVersion(fetchData, priceDataType, 375) : r.err = Nil
    /\ \A r \in currentVersion(fetchData, usdDataType, 375) : r.err # Nil

\* the records of a category were stored with strictly increasing timestamps
StrictlyIncreasing(dataType) ==
    \A i, j \in 1..Len(fetchData) :
        (i < j /\ fetchData[i].type = dataType /\ fetchData[j].type = dataType)
            => CreatedMillis(fetchData[i]) < CreatedMillis(fetchData[j])

\* the record of a category in force at t: the latest created at or before t
InForce(dataType, t) ==
    {i \in AsOf(dataType, t) :
        \A j \in AsOf(dataType, t) :
            CreatedMillis(fetchData[j]) <= CreatedMillis(fetchData[i])}

\* C14: with the snapshots of a category stored at strictly increasing
\* timestamps, Get(category, CurrentVersion(category, t)) returns the payload
\* stored at the latest timestamp <= t (the last payload for t past the last
\* timestamp); the payload of a record is the one passed to Store.
C14_AsOfRoundTrip ==
    /\ \A gotype \in GoTypes, t \in QueryTimes :
          LET dataType == getDataType([gotype |-> gotype])
          IN StrictlyIncreasing(dataType) =>
                \A i \in InForce(dataType, t) :
                    \A r \in currentVersion(fetchData, dataType, t) :
                        /\ r.err = Nil
                        /\ getData(fetchData, gotype, r.v)
                              = [data |-> Unmarshal(fetchData[i].data), err |-> Nil]
    /\ last.op = "Store" =>
          /\ Unmarshal(fetchData[Len(fetchData)].data) = last.arg.data
          /\ CreatedMillis(fetchData[Len(fetchData)]) = last.arg.timepoint
          /\ fetchData[Len(fetchData)].type = last.id

\* price P1 stored at 250 and then price P2 at 750: the query at 375 reads
\* P1, the query at 875 reads P2
C14_Witness ==
    /\ StrictlyIncreasing(priceDataType)
    /\ \E i, j \in 1..Len(fetchData) :
          /\ i < j
          /\ fetchData[i].type = priceDataType /\ CreatedMillis(fetchData[i]) = 250
          /\ fetchData[j].type = priceDataType /\ CreatedMillis(fetchData[j]) = 750
    /\ \A r \in currentVersion(fetchData, priceDataType, 375) :
          getData(fetchData, "AllPriceEntry", r.v).data.v = "P1"
    /\ \A r \in currentVersion(fetchData, priceDataType, 875) :
          getData(fetchData, "AllPriceEntry", r.v).data.v = "P2"

\* C15: Get(category, version) fails with the no-rows error when no record
\* has that id or the record with that id is of another category; when it
\* succeeds the payload is that of the record of this category with that id.
C15_GetByVersionAndCategory ==
    \A gotype \in GoTypes, v \in 0..(serial + 1) :
        LET dataType == getDataType([gotype |-> gotype])
            hit == {i \in 1..Len(fetchData) :
                       fetchData[i].id = v /\ fetchData[i].type = dataType}
            g == getData(fetchData, gotype, v)
        IN IF hit = {}
           THEN g = [data |-> Nil, err |-> ErrNoRows]
           ELSE /\ g.err = Nil
                /\ g.data.gotype = gotype
                /\ \A i \in hit : g.data = Unmarshal(fetchData[i].data)

\* version 1 is a price record: Get reads it as price and fails as usd,
\* and fails for a version never assigned
C15_Witness ==
    /\ \E i \in 1..Len(fetchData) :
          fetchData[i].id = 1 /\ fetchData[i].type = priceDataType
    /\ getData(fetchData, "AllPriceEntry", 1).err = Nil
    /\ getData(fetchData, "USDData", 1).err = ErrNoRows
    /\ getData(fetchData, "AllPriceEntry", serial + 1).err = ErrNoRows

(***************************************************************************)
(* Snapshot store: retention                                               *)
(***************************************************************************)
\* the auth records with the greatest created time
NewestAuth ==
    {i \in 1..Len(fetchData) :
        /\ fetchData[i].type = authDataType
        /\ \A j \in 1..Len(fetchData) :
              fetchData[j].type = authDataType
                  => CreatedMillis(fetchData[j]) <= CreatedMillis(fetchData[i])}

\* the rows of the table, as a set
RowSet(rows) == {rows[i] : i \in 1..Len(rows)}

\* C16: after a PruneExpiredAuthData call on a store that held an auth
\* record, the auth record with the greatest created time is still present.
C16_NewestAuthSurvives ==
    [][last'.op = "Prune" =>
          \A i \in NewestAuth : fetchData[i] \in RowSet(fetchData')]_vars

\* C16 as the code has it: PruneExpiredAuthData(timepoint) deletes exactly
\* the auth records created before timepoint - authDataExpiredDuration, the
\* newest one included when it is that old; every other record stays, in
\* order, and the count returned is the number of records deleted.
C16_PruneDeletesOlderThanCutoff ==
    [][last'.op = "Prune" =>
          LET cutoff == last'.arg - authDataExpiredDuration
              keep == SelectSeq(fetchData, LAMBDA row :
                          row.type # authDataType \/ CreatedMillis(row) >= cutoff)
          IN /\ fetchData' = keep
             /\ returned' = Len(fetchData) - Len(keep)]_vars

\* a prune with cutoff 500 has deleted an auth record and left the auth
\* record created at 500
C16_Witness ==
    /\ last.op = "Prune"
    /\ last.arg = authDataExpiredDuration + 500
    /\ returned >= 1
    /\ \E i \in 1..Len(fetchData) :
          fetchData[i].type = authDataType /\ CreatedMillis(fetchData[i]) = 500

\* C17: ExportExpiredAuthData(timepoint) that returned without error,
\* directly followed by PruneExpiredAuthData(timepoint), has written the
\* payloads of exactly the records the prune deletes, one per line and each
\* once, and both return the same count; the export changes no record.
C17_ExportEqualsPrune ==
    [][/\ (last.op = "Export" /\ last.err = Nil /\ last'.op = "Prune"
            /\ last'.arg = last.arg)
          => LET gone == SelectSeq(fetchData, LAMBDA row :
                             row \notin RowSet(fetchData'))
             IN /\ returned' = returned
                /\ outFile = [i \in 1..Len(gone) |-> gone[i].data]
       /\ last'.op = "Export" => fetchData' = fetchData /\ serial' = serial]_vars

\* C18: no operation changes the created time, category or payload of an
\* existing record; a record disappears only in a prune and only if it is an
\* auth record; no id is given to a second record.
C18_AppendOnly ==
    [][\A i \in 1..Len(fetchData) :
          LET row == fetchData[i]
              same == {j \in 1..Len(fetchData') : fetchData'[j].id = row.id}
          IN /\ \A j \in same : fetchData'[j] = row
             /\ Cardinality(same) <= 1
             /\ same = {} => (row.type = authDataType /\ last'.op = "Prune")]_vars

\* a prune has deleted an auth record and left a price record that is as old
C18_Witness ==
    /\ last.op = "Prune"
    /\ returned >= 1
    /\ \E i \in 1..Len(fetchData) :
          /\ fetchData[i].type = priceDataType
          /\ CreatedMillis(fetchData[i]) < last.arg - authDataExpiredDuration

(***************************************************************************)
(* Trade history                                                           *)
(***************************************************************************)
\* C19: GetTradeHistory(fromTime, toTime) with toTime - fromTime above the
\* maximum returns the too-broad error with an empty result and opens no
\* read transaction; with toTime - fromTime at or below the maximum it is
\* not rejected.
C19_RejectedIffTooBroad ==
    \A fromTime \in Uints, toTime \in Uints :
        LET g == GetTradeHistory(trades, fromTime, toTime)
        IN IF toTime - fromTime > maxGetTradeHistory
           THEN g.err = TooBroadErr /\ g.result = EmptyBucket /\ ~g.viewed
           ELSE g.err = Nil

\* C19 as the code has it: the window is toTime - fromTime in unsigned
\* arithmetic, which wraps when fromTime > toTime; the call is rejected
\* (too-broad error, empty result, no read transaction) exactly when that
\* unsigned difference is above the maximum.
C19_RejectedIffUnsignedTooBroad ==
    \A fromTime \in Uints, toTime \in Uints :
        LET g == GetTradeHistory(trades, fromTime, toTime)
            window == IF toTime >= fromTime THEN toTime - fromTime
                      ELSE UintMod - (fromTime - toTime)
        IN IF window > maxGetTradeHistory
           THEN g.err = TooBroadErr /\ g.result = EmptyBucket /\ ~g.viewed
           ELSE g.err = Nil /\ g.viewed /\ DOMAIN g.result = DOMAIN trades

\* a trade stamped 11 is held: the window 10..13 is served and has it, the
\* window 10..14 is rejected with nothing read, and so is the window 12..10
C19_Witness ==
    /\ \E pair \in DOMAIN trades :
          /\ TradeKey(TradeHistory("a", 11)) \in DOMAIN trades[pair]
          /\ GetTradeHistory(trades, 10, 13).result[pair] # <<>>
    /\ GetTradeHistory(trades, 10, 13).err = Nil
    /\ GetTradeHistory(trades, 10, 14).err = TooBroadErr
    /\ GetTradeHistory(trades, 10, 14).result = EmptyBucket
    /\ GetTradeHistory(trades, 12, 10).err = TooBroadErr

(***************************************************************************)
(* Rebroadcaster                                                           *)
(***************************************************************************)
\* the nodes whose SendTransaction returned nil / an error in this call
Accepted == {id \in DOMAIN bc.sent : bc.sent[id] = Nil}

Failed == {id \in DOMAIN bc.sent : bc.sent[id] # Nil}

\* C20: the flag returned by Broadcast is true exactly when the node set is
\* not empty, some node accepted the transaction and some node failed; it
\* is false when every node accepted and when every node failed.
C20_TrueIffPartial ==
    bc.pc = "done" =>
        (bc.ok <=> (bc.clients # {} /\ Accepted # {} /\ Failed # {}))

\* C20 as the code has it: the flag is true exactly when fewer nodes failed
\* than are configured, so it is true when every node of a non-empty set
\* accepted and when only some did, and false when every node failed or the
\* set is empty.
C20_TrueIffFewerFailedThanNodes ==
    bc.pc = "done" =>
        /\ bc.ok <=> Cardinality(Failed) < Cardinality(bc.clients)
        /\ (bc.clients # {} /\ Failed = {}) => bc.ok
        /\ Failed = bc.clients => ~bc.ok

\* Broadcast returned true with two nodes that both accepted
C20_Witness ==
    /\ bc.pc = "done"
    /\ Cardinality(bc.clients) = 2
    /\ Accepted = bc.clients
    /\ bc.ok

\* C21: the flag returned by Broadcast is true exactly when some node
\* accepted the transaction (every node accepting included); it is false for
\* an empty node set and when every node failed.
C21_TrueIffSomeNodeAccepted ==
    bc.pc = "done" =>
        /\ bc.ok <=> (\E id \in bc.clients : bc.sent[id] = Nil)
        /\ bc.clients = {} => ~bc.ok
        /\ (\A id \in bc.clients : bc.sent[id] # Nil) => ~bc.ok

\* Broadcast returned true after one node accepted and another timed out
C21_Witness ==
    /\ bc.pc = "done"
    /\ bc.ok
    /\ \E id \in bc.clients : bc.sent[id] = Nil
    /\ \E id \in bc.clients : bc.sent[id] = "context deadline exceeded"

\* C22: the failures map returned by Broadcast has an entry for a node
\* exactly when SendTransaction to that node returned an error (the timeout
\* of the context included), the entry is that error, and the keys are
\* configured node ids.
C22_FailuresAreTheErrors ==
    bc.pc = "done" =>
        /\ DOMAIN bc.result \subseteq bc.clients
        /\ \A id \in bc.clients :
              IF bc.sent[id] = Nil THEN id \notin DOMAIN bc.result
              ELSE id \in DOMAIN bc.result /\ bc.result[id] = bc.sent[id]

\* Broadcast returned after one node rejected, one timed out and one accepted
C22_Witness ==
    /\ bc.pc = "done"
    /\ \E id \in DOMAIN bc.result : bc.result[id] = "rejected"
    /\ \E id \in DOMAIN bc.result : bc.result[id] = "context deadline exceeded"
    /\ \E id \in bc.clients : id \notin DOMAIN bc.result

\* C23: Broadcast returns only after SendTransaction has returned for every
\* configured node: at its return nothing is in flight, the WaitGroup is at
\* zero and every node's outcome is in the aggregation; and a Broadcast that
\* was entered returns, every SendTransaction returning.
C23_Barrier ==
    /\ [](bc.pc = "done" =>
            /\ bc.sending = NoNode
            /\ bc.wg = 0
            /\ bc.left = {}
            /\ DOMAIN bc.sent = bc.clients
            /\ DOMAIN bc.result = {id \in bc.clients : bc.sent[id] # Nil})
    /\ (bc.pc \in {"loop", "sending"} ~> bc.pc = "done")

\* Broadcast over three nodes has returned with every node's outcome
C23_Witness ==
    /\ bc.pc = "done"
    /\ Cardinality(bc.clients) = 3
    /\ DOMAIN bc.sent = bc.clients

\* C24: the submissions run concurrently: while SendTransaction to one node
\* is running and a node has not been reached yet, the submission to that
\* node can start (it does not wait for the running one to return).
C24_StartsWithoutWaiting ==
    (bc.pc \in {"loop", "sending"} /\ bc.left # {})
        => ENABLED (\E id \in Nodes : BroadcastLoop(id))

(***************************************************************************)
(* Concurrent readers and callers                                          *)
(***************************************************************************)
\* C25: a reader that calls ListPending() and GetConfirmed(id), in either
\* order, about a pending id while Promote(id, tx) runs, sees the id in
\* exactly one of the two sets.
C25_ReaderSeesExactlyOne ==
    reader.pc = "done" =>
        \/ reader.inPending /\ ~reader.inConfirmed
        \/ ~reader.inPending /\ reader.inConfirmed

\* C25 as the code has it: the two writes of Promote commit together, so at
\* no instant is an id that was stored in neither bucket, and each single
\* call of the reader sees the buckets before or after the commit: if the
\* commit is not between the reader's two calls the reader sees the id
\* pending only; if it is between them the reader sees the id in both sets
\* (ListPending first) or in neither (GetConfirmed first).
C25_EachReadSeesACommittedState ==
    /\ \A id \in inserted : ListsPending(id) \/ GetsConfirmed(id)
    /\ reader.pc = "done" =>
          IF ~reader.committed
          THEN reader.inPending /\ ~reader.inConfirmed
          ELSE IF reader.first = "list"
          THEN reader.inPending /\ reader.inConfirmed
          ELSE ~reader.inPending /\ ~reader.inConfirmed

\* the reader asked GetConfirmed before and ListPending after the commit of
\* the Promote: it has seen the id in neither set
C25_Witness ==
    /\ reader.pc = "done"
    /\ reader.first = "get"
    /\ reader.committed
    /\ ~reader.inPending
    /\ ~reader.inConfirmed
    /\ GetsConfirmed(reader.id)

\* the pending deposit rows of an (asset, exchange) pair
PendingDeposits(asset, exchange) ==
    {i \in 1..Len(activity) :
        /\ activity[i].is_pending
        /\ Unmarshal(activity[i].data).Action = ActionDeposit
        /\ Unmarshal(activity[i].data).Destination = exchange
        /\ Unmarshal(activity[i].data).Params.Asset = asset}

\* C28: with every caller recording a deposit only after
\* HasPendingDeposit(asset, exchange) returned false to it, the ledger never
\* holds two pending deposits of the same (asset, exchange) pair.
C28_OnePendingDepositPerPair ==
    \A asset \in Assets, exchange \in Exchanges :
        Cardinality(PendingDeposits(asset, exchange)) <= 1

(***************************************************************************)
(* Intermediate transactions: StorePending and Promote                     *)
(***************************************************************************)
\* C26: a StorePending(id, txEntry) that returns success makes ListPending
\* return txEntry for id, whatever was pending for id before, and leaves the
\* pending entries of the other ids and the confirmed bucket as they were;
\* the only other change of what ListPending returns is a Promote taking
\* its id out, so ListPending returns the last stored entry of each id
\* stored and not promoted since (stated for the calls that follow a call).
C26_StorePendingFrame ==
    [][last.op # "NewStorage" =>
       LET before == GetPendingIntermediateTXs(pending)
           after == GetPendingIntermediateTXs(pending')
       IN IF last'.op = "StorePending" /\ last'.err = Nil
          THEN /\ DOMAIN after = DOMAIN before \cup {last'.id}
               /\ after[last'.id] = last'.arg
               /\ \A id \in DOMAIN before \ {last'.id} : after[id] = before[id]
               /\ confirmed' = confirmed
          ELSE IF last'.op = "Promote" /\ last'.err = Nil
          THEN /\ DOMAIN after = DOMAIN before \ {last'.id}
               /\ \A id \in DOMAIN after : after[id] = before[id]
          ELSE after = before]_vars

\* C30: whenever StorePending returns success the entry is in the pending
\* bucket under the id afterwards: no failure is swallowed (stated for the
\* calls that follow a call).
C30_SuccessMeansStored ==
    [][(last.op # "NewStorage" /\ last'.op = "StorePending" /\ last'.err = Nil) =>
          /\ MarshalID(last'.id) \in DOMAIN pending'
          /\ pending'[MarshalID(last'.id)] = Marshal(last'.arg)]_vars

\* C27: Promote(id, txEntry) called again with the same arguments and
\* meeting no failure itself returns success and leaves both buckets as one
\* successful call does: after a successful call a further call succeeds and
\* changes nothing, and a call repeated after a failed one leaves the entry
\* confirmed and the id not pending.
C27_PromoteRetrySafe ==
    [][(last'.op = "Promote" /\ last'.err = Nil) =>
          LET after == [pending |-> pending', confirmed |-> confirmed']
              more == Update(after,
                             StoreIntermediateFn(after, last'.id, last'.arg, "none"),
                             FALSE)
          IN /\ more.err = Nil
             /\ more.db = after
             /\ last'.again =>
                   /\ GetIntermedatorTx(confirmed', last'.id)
                         = [tx |-> last'.arg, err |-> Nil]
                   /\ last'.id \notin DOMAIN GetPendingIntermediateTXs(pending')
                   /\ last.err = Nil =>
                         (pending' = pending /\ confirmed' = confirmed)]_vars

\* a Promote has succeeded directly after a Promote with the same arguments
C27_Witness ==
    /\ last.op = "Promote"
    /\ last.again
    /\ last.err = Nil
    /\ last.id \in promoted
    /\ GetIntermedatorTx(confirmed, last.id).tx = last.arg

\* the trades a pair bucket holds
StoredTrades(bucket) == {Unmarshal(bucket[k]) : k \in DOMAIN bucket}

\* C29: GetTradeHistory(fromTime, toTime) with an accepted window returns,
\* for every pair, exactly the stored trades with
\* fromTime <= Timestamp <= toTime, each once.
C29_InclusiveWindow ==
    \A fromTime \in Uints, toTime \in Uints :
        (fromTime <= toTime /\ toTime - fromTime <= maxGetTradeHistory) =>
            LET g == GetTradeHistory(trades, fromTime, toTime)
            IN /\ g.err = Nil
               /\ DOMAIN g.result = DOMAIN trades
               /\ \A pair \in DOMAIN trades :
                     /\ {g.result[pair][i] : i \in 1..Len(g.result[pair])}
                           = {t \in StoredTrades(trades[pair]) :
                                 fromTime <= t.Timestamp /\ t.Timestamp <= toTime}
                     /\ \A i, j \in 1..Len(g.result[pair]) :
                           g.result[pair][i] = g.result[pair][j] => i = j

\* C31: ExportExpiredAuthData that returns no error and count n has written
\* the payloads of all n expiring records to the export file, one per line
\* and in the order of the query; a failed write of a payload is never
\* answered with success.
C31_SuccessMeansAllWritten ==
    (last.op = "Export" /\ last.err = Nil) =>
        LET sel == SelectSeq(fetchData, LAMBDA row : IsExpired(row, last.arg))
        IN /\ returned = Len(sel)
           /\ Len(outFile) = returned
           /\ \A i \in 1..Len(outFile) : outFile[i] = sel[i].data

\* C32: Promote(id, txEntry) for an id that is not in the pending bucket
\* (never stored as pending, or promoted before) succeeds when it meets no
\* failure, writes txEntry into the confirmed bucket under the id and leaves
\* the pending bucket as it was.
C32_PromoteNeedsNoPending ==
    [][(last'.op = "Promote" /\ MarshalID(last'.id) \notin DOMAIN pending) =>
          LET alone == Update(DB,
                              StoreIntermediateFn(DB, last'.id, last'.arg, "none"),
                              FALSE)
          IN /\ alone.err = Nil
             /\ alone.db.pending = pending
             /\ last'.err = Nil =>
                   /\ pending' = pending
                   /\ confirmed' = Put(confirmed, ToBytes(last'.id),
                                       Marshal(last'.arg))
                   /\ GetIntermedatorTx(confirmed', last'.id)
                         = [tx |-> last'.arg, err |-> Nil]]_vars

\* a Promote has succeeded for the only id promoted so far, not directly
\* after a StorePending or a Promote with its arguments; the id is not
\* pending and another id's entry stays pending
C32_Witness ==
    /\ last.op = "Promote"
    /\ last.err = Nil
    /\ ~last.afterStore
    /\ ~last.again
    /\ promoted = {last.id}
    /\ MarshalID(last.id) \notin DOMAIN pending
    /\ pending # EmptyBucket
    /\ GetIntermedatorTx(confirmed, last.id) = [tx |-> last.arg, err |-> Nil]

====
